---- MODULE Spec2Model ----
(***************************************************************************)
(* State machine of selfdrive/ui/ui_state.py: the UIState singleton, which  *)
(* derives panda_type, ignition, started, light_sensor and status from the  *)
(* SubMaster snapshot once per frame, and the Device interaction-timeout    *)
(* tracker that UIState.update() drives at the end of every frame.          *)
(***************************************************************************)
EXTENDS Integers, Sequences, FiniteSets

VARIABLES
  sm,               \* UIState.sm: the SubMaster snapshot (frame, updated, recv_frame, alive, valid, data)
  fps,              \* the value rl.get_fps() returned in the last update
  now,              \* the last value time.monotonic() returned
  mouse_down,       \* what rl.is_mouse_button_down(MOUSE_BUTTON_LEFT) returned in the last update
  panda_type,       \* UIState.panda_type
  ignition,         \* UIState.ignition
  light_sensor,     \* UIState.light_sensor
  started,          \* UIState.started
  status,           \* UIState.status
  started_frame,    \* UIState.started_frame
  engaged_prev,     \* UIState._engaged_prev
  started_prev,     \* UIState._started_prev
  dev_ignition,     \* Device._ignition
  interaction_time, \* Device._interaction_time (the deadline)
  prev_timed_out,   \* Device._prev_timed_out
  callbacks,        \* Device._interactive_timeout_callbacks
  last,             \* history: the operation that made the last step
  invoked,          \* history: the callbacks the last step invoked, in order
  reset_time,       \* history: the clock value of the last reset_interactive_timeout
  reset_arg,        \* history: the timeout argument of that reset (-1: none given)
  calls,            \* history: Device.update calls since the last reset
  every_second,     \* history: the k-th of those calls was made at reset_time + k, for every k
  past_calls        \* history: those calls that found the deadline elapsed

vars == <<sm, fps, now, mouse_down, panda_type, ignition, light_sensor, started,
          status, started_frame, engaged_prev, started_prev, dev_ignition,
          interaction_time, prev_timed_out, callbacks, last, invoked,
          reset_time, reset_arg, calls, every_second, past_calls>>

uiVars == <<sm, fps, panda_type, ignition, light_sensor, started, status,
            started_frame, engaged_prev, started_prev>>

---------------------------------------------------------------------------
\* Bounds of the model.

\* The hardware-state specification stops once sm.frame has reached MaxFrame.
MaxFrame == 7
\* The engagement and camera specifications stop once sm.frame has reached MaxTicks.
MaxTicks == 4
\* The clock is not read past MaxTime.
MaxTime == 13
\* At most MaxDt seconds pass between two reads of the clock.
MaxDt == 2
\* At most MaxCallbacks callbacks are registered.
MaxCallbacks == 2

---------------------------------------------------------------------------
\* Values of the messages.

UNKNOWN == "unknown"
PandaTypes == {UNKNOWN, "dos", "tres"}

DISENGAGED == "disengaged"
ENGAGED == "engaged"
OVERRIDE == "override"
UIStatus == {DISENGAGED, ENGAGED, OVERRIDE}

OpenpilotStates == {"disabled", "preEnabled", "enabled", "softDisabling", "overriding"}

Panda(type, line, can) == [pandaType |-> type, ignitionLine |-> line, ignitionCan |-> can]

\* The pandaStates lists a delivery may carry: none, one or two units.
PandaPayloads ==
  { <<>>,
    <<Panda("dos", FALSE, FALSE)>>,
    <<Panda("dos", TRUE, FALSE)>>,
    <<Panda(UNKNOWN, TRUE, FALSE)>>,
    <<Panda("tres", FALSE, FALSE), Panda("dos", FALSE, TRUE)>>,
    <<Panda("dos", TRUE, FALSE), Panda("tres", FALSE, FALSE)>>,
    <<Panda(UNKNOWN, FALSE, FALSE), Panda("dos", TRUE, TRUE)>> }

Sensors == {"ar0231", "ox03c10"}
Exposures == {0, 15, 20, 100}
CameraPayloads ==
  [sensor : Sensors, exposureValPercent : Exposures, valid : BOOLEAN]

SelfdrivePayloads == [state : OpenpilotStates, enabled : BOOLEAN]
DevicePayloads == [started : BOOLEAN]

\* A topic's input of one sm.update(0): whether a message arrived, and the message.
Absent(d) == [delivered |-> FALSE, msg |-> d]
Delivered(S) == {[delivered |-> TRUE, msg |-> m] : m \in S}

NoPanda == Absent(<<>>)
NoCamera == Absent([sensor |-> "ox03c10", exposureValPercent |-> 0, valid |-> FALSE])
NoDevice == Absent([started |-> FALSE])
NoSelfdrive == Absent([state |-> "disabled", enabled |-> FALSE])

Max(a, b) == IF a >= b THEN a ELSE b

---------------------------------------------------------------------------
\* messaging.SubMaster, as far as UIState reads it.

\* The snapshot after construction, with the frame counter at f0.
SmInit(f0) ==
  [frame |-> f0,
   updated |-> [pandaStates |-> FALSE, wideRoadCameraState |-> FALSE, selfdriveState |-> FALSE],
   recv_frame |-> [pandaStates |-> 0],
   alive |-> [wideRoadCameraState |-> FALSE],
   valid |-> [wideRoadCameraState |-> FALSE],
   data |-> [pandaStates |-> <<>>,
             wideRoadCameraState |-> [sensor |-> "ox03c10", exposureValPercent |-> 0],
             deviceState |-> [started |-> FALSE],
             selfdriveState |-> [state |-> "disabled", enabled |-> FALSE]]]

\* sm.update(0): the frame counter advances; a topic that delivered is updated,
\* alive, stamped with the frame and holds the new message with its validity; a
\* topic that did not keeps its message and validity, and stays alive only while
\* `camAlive` (its last message is still recent) says so.
SmUpdate(s, in) ==
  LET f == s.frame + 1 IN
  [frame |-> f,
   updated |-> [pandaStates |-> in.panda.delivered,
                wideRoadCameraState |-> in.cam.delivered,
                selfdriveState |-> in.ss.delivered],
   recv_frame |-> [pandaStates |-> IF in.panda.delivered THEN f ELSE s.recv_frame.pandaStates],
   alive |-> [wideRoadCameraState |->
                IF in.cam.delivered THEN TRUE
                ELSE s.alive.wideRoadCameraState /\ in.camAlive],
   valid |-> [wideRoadCameraState |->
                IF in.cam.delivered THEN in.cam.msg.valid ELSE s.valid.wideRoadCameraState],
   data |-> [pandaStates |-> IF in.panda.delivered THEN in.panda.msg ELSE s.data.pandaStates,
             wideRoadCameraState |->
                IF in.cam.delivered
                THEN [sensor |-> in.cam.msg.sensor,
                      exposureValPercent |-> in.cam.msg.exposureValPercent]
                ELSE s.data.wideRoadCameraState,
             deviceState |-> IF in.dev.delivered THEN in.dev.msg ELSE s.data.deviceState,
             selfdriveState |-> IF in.ss.delivered THEN in.ss.msg ELSE s.data.selfdriveState]]

---------------------------------------------------------------------------
\* UIState._update_state

\* AnyIgnition looking at the first panda only.
AnyIgnitionFirstOnly(ps) == ps[1].ignitionLine \/ ps[1].ignitionCan

\* any(state.ignitionLine or state.ignitionCan for state in panda_states)
AnyIgnition(ps) == \E i \in 1..Len(ps) : ps[i].ignitionLine \/ ps[i].ignitionCan

\* PandaTypeAfter with the liveness window one frame short (>= for >).
PandaTypeAfterInclusive(s, f, old) ==
  IF s.updated.pandaStates
  THEN IF Len(s.data.pandaStates) > 0 THEN s.data.pandaStates[1].pandaType ELSE old
  ELSE IF s.frame - s.recv_frame.pandaStates >= 5 * f THEN UNKNOWN ELSE old

\* panda_type after the pandaStates block; `old` is its value before.
PandaTypeAfter(s, f, old) ==
  IF s.updated.pandaStates
  THEN IF Len(s.data.pandaStates) > 0 THEN s.data.pandaStates[1].pandaType ELSE old
  ELSE IF s.frame - s.recv_frame.pandaStates > 5 * f THEN UNKNOWN ELSE old

\* IgnitionAfter dropping the ignition whenever the panda type is unknown.
IgnitionAfterForgetful(s, pt, old) ==
  IF s.updated.pandaStates /\ Len(s.data.pandaStates) > 0 /\ pt # UNKNOWN
  THEN AnyIgnition(s.data.pandaStates)
  ELSE IF pt = UNKNOWN THEN FALSE ELSE old

\* ignition after the pandaStates block; `pt` is panda_type after it.
IgnitionAfter(s, pt, old) ==
  IF s.updated.pandaStates /\ Len(s.data.pandaStates) > 0 /\ pt # UNKNOWN
  THEN AnyIgnition(s.data.pandaStates)
  ELSE old

\* Scale ignoring the sensor.
ScaleUniform(sensor) == 1

\* 6.0 if cam_state.sensor == 'ar0231' else 1.0
Scale(sensor) == IF sensor = "ar0231" THEN 6 ELSE 1

\* LightSensorAfter falling back only when the topic is both dead and invalid.
LightSensorAfterBoth(s, old) ==
  IF s.updated.wideRoadCameraState
  THEN Max(100 - Scale(s.data.wideRoadCameraState.sensor)
                   * s.data.wideRoadCameraState.exposureValPercent, 0)
  ELSE IF ~s.alive.wideRoadCameraState /\ ~s.valid.wideRoadCameraState THEN -1 ELSE old

\* light_sensor after the wideRoadCameraState block.
LightSensorAfter(s, old) ==
  IF s.updated.wideRoadCameraState
  THEN Max(100 - Scale(s.data.wideRoadCameraState.sensor)
                   * s.data.wideRoadCameraState.exposureValPercent, 0)
  ELSE IF ~s.alive.wideRoadCameraState \/ ~s.valid.wideRoadCameraState THEN -1 ELSE old

\* StartedAfter reading the ignition of the frame before.
StartedAfterStale(s, ign) == s.data.deviceState.started /\ ignition

\* self.started = self.sm["deviceState"].started and self.ignition
StartedAfter(s, ign) == s.data.deviceState.started /\ ign

---------------------------------------------------------------------------
\* UIState._update_status

\* SelfdriveStatus testing the enabled flag before the state.
SelfdriveStatusEnabledFirst(ss) ==
  IF ~ss.enabled THEN DISENGAGED
  ELSE IF ss.state \in {"preEnabled", "overriding"} THEN OVERRIDE ELSE ENGAGED

\* The status a delivered selfdriveState stands for.
SelfdriveStatus(ss) ==
  IF ss.state \in {"preEnabled", "overriding"} THEN OVERRIDE
  ELSE IF ss.enabled THEN ENGAGED ELSE DISENGAGED

\* UIState.engaged
Engaged(s, st) == st /\ s.data.selfdriveState.enabled

\* Transition without the frame == 1 clause.
TransitionOnChangeOnly(s, st, prev) == st # prev

\* The onroad/offroad transition test; `st` is started, `prev` is _started_prev.
Transition(s, st, prev) == st # prev \/ s.frame = 1

\* StatusAfter with the two blocks in the other order: selfdriveState wins over the reset.
StatusAfterSelfdriveLast(s, st, prev, old) ==
  IF st /\ s.updated.selfdriveState THEN SelfdriveStatus(s.data.selfdriveState)
  ELSE IF Transition(s, st, prev) /\ st THEN DISENGAGED
  ELSE old

\* StatusAfter resetting on the transition in either direction.
StatusAfterEitherWay(s, st, prev, old) ==
  IF Transition(s, st, prev) THEN DISENGAGED
  ELSE IF st /\ s.updated.selfdriveState THEN SelfdriveStatus(s.data.selfdriveState)
  ELSE old

\* status after _update_status; `st` is started, `prev` is _started_prev.
StatusAfter(s, st, prev, old) ==
  IF Transition(s, st, prev) /\ st THEN DISENGAGED
  ELSE IF st /\ s.updated.selfdriveState THEN SelfdriveStatus(s.data.selfdriveState)
  ELSE old

\* StartedFrameAfter stamping the frame on the transition in either direction.
StartedFrameAfterEitherWay(s, st, prev, old) ==
  IF Transition(s, st, prev) THEN s.frame ELSE old

\* started_frame after _update_status.
StartedFrameAfter(s, st, prev, old) ==
  IF Transition(s, st, prev) /\ st THEN s.frame ELSE old

\* StartedPrevAfter never recording the transition.
StartedPrevAfterStuck(s, st, prev) == prev

\* _started_prev after _update_status.
StartedPrevAfter(s, st, prev) == IF Transition(s, st, prev) THEN st ELSE prev

---------------------------------------------------------------------------
\* Device

\* Timeout with the two default durations exchanged.
TimeoutExchanged(timeout, ign) == IF timeout = -1 THEN (IF ign THEN 30 ELSE 10) ELSE timeout

\* The timeout reset_interactive_timeout uses; -1 asks for the default.
Timeout(timeout, ign) == IF timeout = -1 THEN (IF ign THEN 10 ELSE 30) ELSE timeout

\* JustTurnedOff looking at the level of the ignition, not at its edge.
JustTurnedOffLevel(ign, devIgn) == ~ign

\* ignition_just_turned_off
JustTurnedOff(ign, devIgn) == ~ign /\ devIgn

\* TimedOut at the deadline itself (>= for >).
TimedOutInclusive(t, deadline) == t >= deadline

\* interaction_timeout
TimedOut(t, deadline) == t > deadline

\* Whether Device.update resets the timeout.
Resets(ign, devIgn, mouse) == JustTurnedOff(ign, devIgn) \/ mouse

\* Fires with the _prev_timed_out test inverted.
FiresWhenAlreadyOut(ign, devIgn, mouse, t, deadline, prevOut) ==
  ~Resets(ign, devIgn, mouse) /\ TimedOut(t, deadline) /\ prevOut

\* Fires without the _prev_timed_out test.
FiresEveryCall(ign, devIgn, mouse, t, deadline, prevOut) ==
  ~Resets(ign, devIgn, mouse) /\ TimedOut(t, deadline)

\* Whether Device.update invokes the callbacks.
Fires(ign, devIgn, mouse, t, deadline, prevOut) ==
  ~Resets(ign, devIgn, mouse) /\ TimedOut(t, deadline) /\ ~prevOut

\* Invocations calling each distinct callback once.
InvocationsDeduplicated(cbs) ==
  LET F[i \in 0..Len(cbs)] ==
        IF i = 0 THEN <<>>
        ELSE IF \E j \in 1..(i - 1) : cbs[j] = cbs[i] THEN F[i - 1]
        ELSE Append(F[i - 1], cbs[i])
  IN F[Len(cbs)]

\* for callback in self._interactive_timeout_callbacks: callback()
Invocations(cbs) == cbs

\* Device.update at clock value t, with UIState.ignition already updated to ign.
DeviceUpdate(ign, t, mouse) ==
  LET reset == Resets(ign, dev_ignition, mouse)
      fire == Fires(ign, dev_ignition, mouse, t, interaction_time, prev_timed_out)
  IN /\ dev_ignition' = ign
     /\ interaction_time' = IF reset THEN t + Timeout(-1, ign) ELSE interaction_time
     /\ prev_timed_out' = TimedOut(t, interaction_time)
     /\ invoked' = IF fire THEN Invocations(callbacks) ELSE <<>>
     /\ reset_time' = IF reset THEN t ELSE reset_time
     /\ reset_arg' = IF reset THEN -1 ELSE reset_arg
     /\ calls' = IF reset THEN 0 ELSE calls + 1
     /\ every_second' = IF reset THEN TRUE ELSE every_second /\ t = reset_time + calls + 1
     /\ past_calls' = IF reset THEN 0
                      ELSE IF TimedOut(t, interaction_time) THEN past_calls + 1 ELSE past_calls
     /\ now' = t
     /\ mouse_down' = mouse
     /\ UNCHANGED callbacks

---------------------------------------------------------------------------
\* The operations.

\* UIState.update: sm.update(0), _update_state, _update_status, device.update().
Update(in, f, t, mouse) ==
  \E s \in {SmUpdate(sm, in)} :
  \E pt \in {PandaTypeAfter(s, f, panda_type)} :
  \E ign \in {IgnitionAfter(s, pt, ignition)} :
  \E st \in {StartedAfter(s, ign)} :
     /\ sm' = s
     /\ fps' = f
     /\ panda_type' = pt
     /\ ignition' = ign
     /\ light_sensor' = LightSensorAfter(s, light_sensor)
     /\ started' = st
     /\ status' = StatusAfter(s, st, started_prev, status)
     /\ started_frame' = StartedFrameAfter(s, st, started_prev, started_frame)
     /\ engaged_prev' = Engaged(s, st)
     /\ started_prev' = StartedPrevAfter(s, st, started_prev)
     /\ DeviceUpdate(ign, t, mouse)
     /\ last' = "update"

\* Device.reset_interactive_timeout(timeout), called by an input handler at clock value t.
ResetInteractiveTimeout(timeout, t) ==
  /\ interaction_time' = t + Timeout(timeout, ignition)
  /\ now' = t
  /\ reset_time' = t
  /\ reset_arg' = timeout
  /\ calls' = 0
  /\ every_second' = TRUE
  /\ past_calls' = 0
  /\ invoked' = <<>>
  /\ last' = "reset"
  /\ UNCHANGED <<uiVars, mouse_down, dev_ignition, prev_timed_out, callbacks>>

\* Device.add_interactive_timeout_callback(callback)
AddInteractiveTimeoutCallback(cb) ==
  /\ callbacks' = Append(callbacks, cb)
  /\ invoked' = <<>>
  /\ last' = "add"
  /\ UNCHANGED <<uiVars, now, mouse_down, dev_ignition, interaction_time, prev_timed_out,
                 reset_time, reset_arg, calls, every_second, past_calls>>

---------------------------------------------------------------------------
\* The state after `ui_state = UIState()` and `device = Device()`.

InitFrames == {-1, 0}

Init ==
  /\ sm \in {SmInit(f0) : f0 \in InitFrames}
  /\ fps = 0
  /\ now = 0
  /\ mouse_down = FALSE
  /\ panda_type = UNKNOWN
  /\ ignition = FALSE
  /\ light_sensor = -1
  /\ started = FALSE
  /\ status = DISENGAGED
  /\ started_frame = 0
  /\ engaged_prev = FALSE
  /\ started_prev = FALSE
  /\ dev_ignition = FALSE
  /\ interaction_time = 0 + Timeout(-1, FALSE)
  /\ prev_timed_out = FALSE
  /\ callbacks = <<>>
  /\ last = "init"
  /\ invoked = <<>>
  /\ reset_time = 0
  /\ reset_arg = -1
  /\ calls = 0
  /\ every_second = TRUE
  /\ past_calls = 0

Input(p, c, a, d, ss) == [panda |-> p, cam |-> c, camAlive |-> a, dev |-> d, ss |-> ss]

---------------------------------------------------------------------------
\* The hardware-state specification: every pandaStates and deviceState delivery
\* pattern, at 0 or 1 frames per second, one update per second.

PandaFps == {0, 1}

PandaUpdate ==
  /\ sm.frame < MaxFrame
  /\ \E p \in {NoPanda} \cup Delivered(PandaPayloads),
        d \in {NoDevice} \cup Delivered(DevicePayloads),
        f \in PandaFps :
       Update(Input(p, NoCamera, FALSE, d, NoSelfdrive), f, now + 1, FALSE)

PandaNext == PandaUpdate

PandaSpec == Init /\ [][PandaNext]_vars

---------------------------------------------------------------------------
\* The engagement specification: every selfdriveState and deviceState delivery
\* pattern, with one panda whose ignition goes on and off.

OnePanda == {<<Panda("dos", TRUE, FALSE)>>, <<Panda("dos", FALSE, FALSE)>>}

StatusUpdate ==
  /\ sm.frame < MaxTicks
  /\ \E p \in {NoPanda} \cup Delivered(OnePanda),
        d \in Delivered(DevicePayloads),
        ss \in {NoSelfdrive} \cup Delivered(SelfdrivePayloads) :
       Update(Input(p, NoCamera, FALSE, d, ss), 1, now + 1, FALSE)

StatusNext == StatusUpdate

StatusSpec == Init /\ [][StatusNext]_vars

---------------------------------------------------------------------------
\* The camera specification: every wideRoadCameraState delivery, liveness and
\* validity pattern.

CameraUpdate ==
  /\ sm.frame < MaxTicks
  /\ \E c \in {NoCamera} \cup Delivered(CameraPayloads), a \in BOOLEAN :
       Update(Input(NoPanda, c, a, NoDevice, NoSelfdrive), 1, now + 1, FALSE)

CameraNext == CameraUpdate

CameraSpec == Init /\ [][CameraNext]_vars

---------------------------------------------------------------------------
\* The interaction-timeout specification: updates 1..MaxDt seconds apart with the
\* ignition going on and off and the pointer pressed or not, resets from input
\* handlers, and callback registrations.

Callbacks == {"a", "b"}
TimeoutArgs == {-1, 1}

TimerUpdate ==
  \E p \in Delivered(OnePanda), dt \in 1..MaxDt, m \in BOOLEAN :
    /\ now + dt <= MaxTime
    /\ Update(Input(p, NoCamera, FALSE, NoDevice, NoSelfdrive), 1, now + dt, m)

TimerReset ==
  \E timeout \in TimeoutArgs :
    ResetInteractiveTimeout(timeout, now)

TimerAdd ==
  \E cb \in Callbacks :
    /\ Len(callbacks) < MaxCallbacks
    /\ AddInteractiveTimeoutCallback(cb)

TimerNext == TimerUpdate \/ TimerReset \/ TimerAdd

TimerSpec == Init /\ [][TimerNext]_vars

---------------------------------------------------------------------------
\* The repeated-update specification: every topic delivers or not in each update,
\* the frame rate is 0 or 1, and the camera topic may die between updates.

RepeatSelfdrive == { [state |-> "enabled", enabled |-> TRUE] }

RepeatDevice == { [started |-> TRUE] }

RepeatCamera ==
  { [sensor |-> "ar0231", exposureValPercent |-> 15, valid |-> TRUE],
    [sensor |-> "ar0231", exposureValPercent |-> 15, valid |-> FALSE] }

RepeatUpdate ==
  /\ sm.frame < MaxTicks
  /\ \E p \in {NoPanda} \cup Delivered(OnePanda),
        d \in {NoDevice} \cup Delivered(RepeatDevice),
        ss \in {NoSelfdrive} \cup Delivered(RepeatSelfdrive),
        c \in {NoCamera} \cup Delivered(RepeatCamera),
        a \in BOOLEAN,
        f \in PandaFps :
       Update(Input(p, c, a, d, ss), f, now + 1, FALSE)

RepeatNext == RepeatUpdate

RepeatSpec == Init /\ [][RepeatNext]_vars

---------------------------------------------------------------------------
\* Properties of the hardware-state derivation, under PandaSpec.

\* C1: after every update, started equals deviceState.started AND ignition, both as
\* they are after that same update; so started is never true while ignition is false
\* or while the latest deviceState reports started = false.
StartedIsDeviceStartedAndIgnition ==
  /\ started = (sm.data.deviceState.started /\ ignition)
  /\ (started => ignition)
  /\ (started => sm.data.deviceState.started)

\* started fell back to false in the very update that found the ignition off, with
\* deviceState still reporting started, after the device had been onroad.
StartedDroppedWithIgnition ==
  /\ last = "update"
  /\ ~started
  /\ sm.data.deviceState.started
  /\ ~ignition
  /\ started_frame > 0

\* C6: an update that finds pandaStates silent for more than 5 * fps frames leaves
\* panda_type unknown; an update without a delivery that finds a silence of 5 * fps
\* frames or fewer leaves panda_type as it was.
PandaTypeUnknownPastWindow ==
  [][sm'.frame # sm.frame =>
       /\ (sm'.frame - sm'.recv_frame.pandaStates > 5 * fps') => (panda_type' = UNKNOWN)
       /\ (~sm'.updated.pandaStates /\ sm'.frame - sm'.recv_frame.pandaStates <= 5 * fps')
            => (panda_type' = panda_type)]_vars

\* The sixth silent frame at 1 fps: the last delivery named a known panda, and
\* panda_type is unknown.
PandaWentStale ==
  /\ fps = 1
  /\ ~sm.updated.pandaStates
  /\ sm.frame - sm.recv_frame.pandaStates = 6
  /\ Len(sm.data.pandaStates) > 0
  /\ sm.data.pandaStates[1].pandaType # UNKNOWN
  /\ panda_type = UNKNOWN

\* C7: an update in which pandaStates did not deliver leaves ignition as it was, also
\* when it forces panda_type to unknown.
IgnitionKeptWithoutDelivery ==
  [][~sm'.updated.pandaStates => (ignition' = ignition)]_vars

\* Onroad with the ignition on while the staleness fallback has made panda_type unknown.
StartedWithUnknownPanda ==
  /\ ~sm.updated.pandaStates
  /\ sm.frame - sm.recv_frame.pandaStates > 5 * fps
  /\ panda_type = UNKNOWN
  /\ ignition
  /\ started

\* C8: an update in which pandaStates delivered a non-empty list whose first unit is
\* of a known type sets ignition to the OR of every unit's ignitionLine and
\* ignitionCan, and panda_type to the first unit's type; if the list is empty or its
\* first unit's type is unknown, ignition is left as it was.
IgnitionIsOrOverPandas ==
  [][(sm'.frame # sm.frame /\ sm'.updated.pandaStates) =>
       LET ps == sm'.data.pandaStates IN
         IF Len(ps) > 0 /\ ps[1].pandaType # UNKNOWN
         THEN /\ ignition' = (\E i \in 1..Len(ps) : ps[i].ignitionLine \/ ps[i].ignitionCan)
              /\ panda_type' = ps[1].pandaType
         ELSE ignition' = ignition]_vars

\* Two units delivered, the second with an ignition signal and the first with none:
\* ignition is on.
IgnitionFromSecondPanda ==
  /\ sm.updated.pandaStates
  /\ Len(sm.data.pandaStates) = 2
  /\ ~sm.data.pandaStates[1].ignitionLine
  /\ ~sm.data.pandaStates[1].ignitionCan
  /\ sm.data.pandaStates[2].ignitionCan
  /\ panda_type = sm.data.pandaStates[1].pandaType
  /\ ignition

---------------------------------------------------------------------------
\* Properties of the engagement status, under StatusSpec.

\* C2: an update in which started goes from false to true leaves status DISENGAGED
\* and started_frame at that update's frame index, whatever selfdriveState delivered.
OnroadTransitionResets ==
  [][(~started /\ started') =>
       (status' = DISENGAGED /\ started_frame' = sm'.frame)]_vars

\* The update that went onroad also received selfdriveState enabled: status is
\* nevertheless DISENGAGED.
WentOnroadWhileEnabled ==
  /\ started
  /\ sm.frame > 1
  /\ started_frame = sm.frame
  /\ sm.updated.selfdriveState
  /\ sm.data.selfdriveState.state = "enabled"
  /\ sm.data.selfdriveState.enabled
  /\ status = DISENGAGED

\* C3 as stated: an update after which started is false, or in which selfdriveState
\* did not deliver, leaves status as it was.
StatusChangesOnlyOnDelivery ==
  [][(~started' \/ ~sm'.updated.selfdriveState) => (status' = status)]_vars

\* C3 as amended: an update after which started is false, or in which selfdriveState
\* did not deliver and before which started was already true, leaves status as it was.
StatusChangesOnlyOnDeliveryOrReset ==
  [][(~started' \/ (~sm'.updated.selfdriveState /\ started)) => (status' = status)]_vars

\* Offroad after an update, with status still ENGAGED from the drive before.
EngagedKeptOffroad ==
  /\ last = "update"
  /\ ~started
  /\ status = ENGAGED

\* C4: an update that finds started true as before, selfdriveState delivered and a
\* frame index other than 1 leaves status OVERRIDE if the state is preEnabled or
\* overriding, whatever the enabled flag; otherwise ENGAGED if enabled, else DISENGAGED.
StatusFollowsSelfdriveState ==
  [][(started /\ started' /\ sm'.updated.selfdriveState /\ sm'.frame # 1) =>
       LET ss == sm'.data.selfdriveState IN
         status' = IF ss.state = "preEnabled" \/ ss.state = "overriding" THEN OVERRIDE
                   ELSE IF ss.enabled THEN ENGAGED
                   ELSE DISENGAGED]_vars

\* Onroad since an earlier frame, selfdriveState delivered overriding with the
\* enabled flag off: status is OVERRIDE.
OverrideWhileNotEnabled ==
  /\ started
  /\ started_frame < sm.frame
  /\ sm.frame # 1
  /\ sm.updated.selfdriveState
  /\ sm.data.selfdriveState.state = "overriding"
  /\ ~sm.data.selfdriveState.enabled
  /\ status = OVERRIDE

---------------------------------------------------------------------------
\* Properties of the light sensor, under CameraSpec.

---------------------------------------------------------------------------
\* Properties of the interaction timeout, under TimerSpec.

\* C9: of the Device.update calls since the last reset that found the deadline
\* elapsed, only the first invokes callbacks.
CallbacksOnlyOnFirstElapsedCall ==
  (last = "update" /\ invoked # <<>>) => past_calls = 1

\* A second or later call past the deadline, with callbacks registered, invoked none.
LaterElapsedCallSilent ==
  /\ last = "update"
  /\ past_calls >= 2
  /\ callbacks # <<>>
  /\ invoked = <<>>

\* C10: after a reset at t0 that set the deadline to t0 + 10, with updates at t0 + 1,
\* t0 + 2, ... and no reset in between, calls 1 to 10 invoke nothing, call 11 invokes
\* the callbacks and call 12 invokes nothing.
FiresAtEleventhSecond ==
  (last = "update" /\ every_second /\ interaction_time = reset_time + 10) =>
    /\ (calls \in 1..10 => invoked = <<>>)
    /\ (calls = 11 => invoked = callbacks)
    /\ (calls = 12 => invoked = <<>>)

\* The eleventh call, one second apart each, invoked the registered callbacks.
EleventhCallFired ==
  /\ last = "update"
  /\ every_second
  /\ interaction_time = reset_time + 10
  /\ calls = 11
  /\ ignition
  /\ invoked # <<>>

\* C11: a reset leaves the deadline at the clock value it read plus the duration: the
\* timeout argument if one was given, else 10 with the ignition on and 30 with it off,
\* the reset of Device.__init__ included; the reset of an ignition-off edge uses 30.
DeadlineIsResetTimePlusDuration ==
  /\ [](calls = 0 =>
          /\ reset_time = now
          /\ interaction_time =
               now + (IF reset_arg = -1 THEN (IF ignition THEN 10 ELSE 30) ELSE reset_arg))
  /\ [][(sm'.frame # sm.frame /\ ignition /\ ~ignition') =>
          (interaction_time' = now' + 30)]_vars

\* An update past the first saw the ignition go off with no pointer press: the
\* deadline is 30 seconds ahead.
EdgeResetThirtySeconds ==
  /\ last = "update"
  /\ sm.frame > 1
  /\ calls = 0
  /\ ~mouse_down
  /\ ~ignition
  /\ interaction_time = now + 30

\* C15 as stated: an update with no ignition-off edge and no pointer press, at a
\* clock value at or past the deadline, after a call that had not timed out, invokes
\* every registered callback.
FiresAtOrPastDeadline ==
  [][(/\ sm'.frame # sm.frame
      /\ ~(dev_ignition /\ ~ignition')
      /\ ~mouse_down'
      /\ ~prev_timed_out
      /\ now' >= interaction_time) => (invoked' = callbacks)]_vars

\* C15 as amended: such an update invokes every registered callback when the clock
\* value is past the deadline, and none when it equals the deadline.
FiresPastDeadlineOnly ==
  [][(/\ sm'.frame # sm.frame
      /\ ~(dev_ignition /\ ~ignition')
      /\ ~mouse_down'
      /\ ~prev_timed_out) =>
       /\ (now' > interaction_time) => (invoked' = callbacks)
       /\ (now' = interaction_time) => (invoked' = <<>>)]_vars

\* The first call past the deadline invoked both registered callbacks.
BothCallbacksFired ==
  /\ last = "update"
  /\ ~mouse_down
  /\ calls >= 1
  /\ past_calls = 1
  /\ prev_timed_out
  /\ Len(callbacks) = 2
  /\ invoked = callbacks

\* C16: an update resets the deadline exactly when the ignition went from on to off
\* in that update or the pointer is down, and then invokes no callback; an update in
\* which the ignition stays off and the pointer is up leaves the deadline alone.
ResetsExactlyOnEdgeOrPress ==
  [][sm'.frame # sm.frame =>
       IF (ignition /\ ~ignition') \/ mouse_down'
       THEN /\ interaction_time' = now' + (IF ignition' THEN 10 ELSE 30)
            /\ invoked' = <<>>
       ELSE interaction_time' = interaction_time]_vars

\* A pointer press in an update that found the deadline elapsed: the deadline is
\* reset and the registered callbacks are not invoked.
PressAfterDeadlineSilent ==
  /\ last = "update"
  /\ mouse_down
  /\ calls = 0
  /\ prev_timed_out
  /\ callbacks # <<>>
  /\ invoked = <<>>
  /\ interaction_time > now

\* C17: the first update after a reset that finds the new deadline elapsed invokes
\* the callbacks (no later one does, so otherwise the idle period is never reported).
FirstElapsedCallFires ==
  (last = "update" /\ calls >= 1 /\ past_calls = 1 /\ prev_timed_out)
    => invoked = callbacks

\* C18: an update that invokes callbacks invokes the registered list as it stands,
\* once per registration and in registration order; an update never changes the
\* list, and the only change to it is a registration appended at its end.
CallbacksInvokedInRegistrationOrder ==
  /\ []((last = "update" /\ invoked # <<>>) => invoked = callbacks)
  /\ [][sm'.frame # sm.frame => callbacks' = callbacks]_vars
  /\ [][callbacks' # callbacks =>
          (\E cb \in Callbacks : callbacks' = Append(callbacks, cb))]_vars

\* A callback registered twice was invoked twice.
SameCallbackInvokedTwice ==
  /\ last = "update"
  /\ callbacks = <<"a", "a">>
  /\ invoked = <<"a", "a">>

---------------------------------------------------------------------------
\* C13 as stated, for the updates in which started changes value: whenever
\* started changes in either direction, status is DISENGAGED and started_frame
\* is the current frame index after the update.
StartedChangeEitherWayResets ==
  [][(sm'.frame # sm.frame /\ started' # started)
       => (status' = DISENGAGED /\ started_frame' = sm'.frame)]_vars

\* C13, amended: an update in which started goes from false to true, or whose
\* frame index is 1 with started true after it, leaves status DISENGAGED and
\* started_frame at the current frame index; an update in which started goes
\* from true to false leaves status and started_frame as they were.
OnroadEntryResetsLeavingKeeps ==
  [][sm'.frame # sm.frame =>
       /\ ((~started /\ started') \/ (sm'.frame = 1 /\ started'))
            => (status' = DISENGAGED /\ started_frame' = sm'.frame)
       /\ (started /\ ~started')
            => (status' = status /\ started_frame' = started_frame)]_vars

LeftOnroadInOverride ==
  /\ last = "update"
  /\ ~started
  /\ started_prev = FALSE
  /\ status = OVERRIDE
  /\ 0 < started_frame
  /\ started_frame < sm.frame

\* C14 as stated: on any update in which started did not go from false to
\* true, started_frame is unchanged.
StartedFrameStampedOnEntryOnly ==
  [][(sm'.frame # sm.frame /\ ~(~started /\ started'))
       => started_frame' = started_frame]_vars

\* C14, amended: on any update in which started did not go from false to true,
\* started_frame is unchanged, except the update with frame index 1 when started
\* is true after it, which stamps started_frame with 1.
StartedFrameStampedOnEntryOrFrameOne ==
  [][(sm'.frame # sm.frame /\ ~(~started /\ started'))
       => IF sm'.frame = 1 /\ started'
          THEN started_frame' = 1
          ELSE started_frame' = started_frame]_vars

StayedOnroadFrameKept ==
  /\ last = "update"
  /\ started
  /\ started_prev
  /\ sm.frame > 1
  /\ 0 < started_frame
  /\ started_frame < sm.frame - 1

\* C19: after an update that delivered wideRoadCameraState, light_sensor is
\* max(100 - scale * exposureValPercent, 0) with scale 6 for sensor 'ar0231'
\* and 1 otherwise; and light_sensor is always -1 or within 0..100.
LightSensorFromExposure ==
  /\ (last = "update" /\ sm.updated.wideRoadCameraState)
       => light_sensor =
            (LET cam == sm.data.wideRoadCameraState
                 v == 100 - (IF cam.sensor = "ar0231" THEN 6 ELSE 1) * cam.exposureValPercent
             IN IF v > 0 THEN v ELSE 0)
  /\ (light_sensor = -1 \/ light_sensor \in 0..100)

ExposureTwentyScaleSixGivesZero ==
  /\ last = "update"
  /\ sm.updated.wideRoadCameraState
  /\ sm.data.wideRoadCameraState.sensor = "ar0231"
  /\ sm.data.wideRoadCameraState.exposureValPercent = 20
  /\ light_sensor = 0

====
